---- MODULE Spec2Model ----
(***************************************************************************)
(* A model of LinearMap (src/src/lib.rs): a map backed by one Vec<(K, V)>. *)
(* The storage is a sequence of <<key, value>> pairs.  Indices into the    *)
(* storage are 0-based as in the source; the pair at index i is s[i + 1].  *)
(* Option values: None is <<>> and Some(v) is <<v>>.  A reference into the *)
(* storage (&V, &mut V) is modelled by the index of the pair it points to. *)
(* The map is generic in K and V; here K is an integer type, of which the  *)
(* keys 1..NumKeys are used, and V is bool.                                *)
(***************************************************************************)
EXTENDS Integers, Sequences, FiniteSets, TLC

\* Bounds of the model.
NumKeys == 3
MaxLen == 3
MaxExtend == 2
EqNumKeys == 3
EqMaxLen == 2
MaxReserve == 2
MaxCapacity == 2

Keys == 1..NumKeys
Vals == BOOLEAN
Pairs == Keys \X Vals
EqKeys == 1..EqNumKeys

VARIABLES
    storage,    \* LinearMap::storage of the map under test
    other,      \* the storage of a second map, the right operand of ==
    handle,     \* the Entry returned by entry() and not yet consumed or dropped
    drain,      \* the Drain iterator returned by drain() and not yet dropped
    last,       \* the observed call: its name, arguments, result and the storage before it
    fresh,      \* history of the calls so far while they were inserts of distinct keys
    cap,        \* the capacity of the Vec behind storage
    iter,       \* the iterator returned by iter(), iter_mut(), keys(), values() or into_iter()
    order,      \* the keys in the order of their first insert, while no call removed a pair
    reserved,   \* the last reserve() and the pushes since
    shared      \* a second Iter, Keys or Values, alive next to iter

vars == <<storage, other, handle, drain, last, fresh, cap, iter, order, reserved, shared>>

----------------------------------------------------------------------------
\* Option<T>
None == <<>>
Some(v) == <<v>>
is_some(o) == o # None

\* The set of sequences over S of length at most n.
RECURSIVE SeqsUpTo(_, _)
SeqsUpTo(S, n) ==
    IF n = 0 THEN {<<>>}
    ELSE LET shorter == SeqsUpTo(S, n - 1)
         IN shorter \cup {Append(q, x) : q \in {r \in shorter : Len(r) = n - 1}, x \in S}

\* The arguments of extend() and the values written in one pass of iter_mut().
ExtendInputs == SeqsUpTo(Pairs, MaxExtend)
IterMutInputs == SeqsUpTo(Vals, MaxLen)

----------------------------------------------------------------------------
\* Vec primitives the map calls.

\* Vec::push
\* Faulty variant: the element is put in front.
push_front(v, x) == <<x>> \o v

push(v, x) == Append(v, x)

\* The capacity of a Vec whose elements are neither zero-sized nor larger
\* than 1024 bytes.  A Vec that has to grow takes the larger of twice its
\* capacity and what is required, and no less than MIN_NON_ZERO_CAP.
MIN_NON_ZERO_CAP == 4

Max(a, b) == IF a >= b THEN a ELSE b

grow_amortized(capacity, length, additional) ==
    Max(MIN_NON_ZERO_CAP, Max(capacity * 2, length + additional))

grow_exact(capacity, length, additional) == length + additional

\* Vec::reserve, Vec::reserve_exact: nothing when the spare capacity suffices.
\* Faulty variant: the capacity grows to additional, whatever the length.
Vec_reserve_no_len(capacity, length, additional) ==
    IF additional > capacity - length THEN additional ELSE capacity

Vec_reserve(capacity, length, additional) ==
    IF additional > capacity - length
    THEN grow_amortized(capacity, length, additional)
    ELSE capacity

Vec_reserve_exact(capacity, length, additional) ==
    IF additional > capacity - length
    THEN grow_exact(capacity, length, additional)
    ELSE capacity

\* Vec::shrink_to_fit
Vec_shrink_to_fit(capacity, length) == IF capacity > length THEN length ELSE capacity

\* The capacity after a push onto a Vec of the given length: it grows when
\* the Vec is full.
push_capacity(capacity, length) ==
    IF length = capacity THEN grow_amortized(capacity, length, 1) ELSE capacity

\* The capacity after the pushes that take the length from from to to.
RECURSIVE capacity_after(_, _, _)
capacity_after(capacity, from, to) ==
    IF from >= to THEN capacity
    ELSE capacity_after(push_capacity(capacity, from), from + 1, to)

\* Vec::swap_remove(index): panics when index >= len; otherwise the last
\* element is moved into the slot and the length shrinks by one.
\* Faulty variants: the last element is not moved into the slot; the elements
\* after the slot are shifted down (Vec::remove).
swap_remove_no_move(v, index) ==
    IF index >= Len(v)
    THEN [vec |-> v, ret |-> None, panic |-> TRUE]
    ELSE [vec |-> SubSeq(v, 1, Len(v) - 1), ret |-> Some(v[index + 1]), panic |-> FALSE]

swap_remove_shift(v, index) ==
    IF index >= Len(v)
    THEN [vec |-> v, ret |-> None, panic |-> TRUE]
    ELSE [vec |-> SubSeq(v, 1, index) \o SubSeq(v, index + 2, Len(v)),
          ret |-> Some(v[index + 1]),
          panic |-> FALSE]

swap_remove(v, index) ==
    IF index >= Len(v)
    THEN [vec |-> v, ret |-> None, panic |-> TRUE]
    ELSE [vec |-> IF index = Len(v) - 1
                  THEN SubSeq(v, 1, Len(v) - 1)
                  ELSE SubSeq(v, 1, index) \o <<v[Len(v)]>> \o SubSeq(v, index + 2, Len(v) - 1),
          ret |-> Some(v[index + 1]),
          panic |-> FALSE]

\* Iterator::position over storage.iter(): the index of the first pair whose
\* key equals key.
RECURSIVE position_from(_, _, _)
position_from(s, key, i) ==
    IF i >= Len(s) THEN None
    ELSE IF key = s[i + 1][1] THEN Some(i)
    ELSE position_from(s, key, i + 1)

position(s, key) == position_from(s, key, 0)

----------------------------------------------------------------------------
\* LinearMap

new == <<>>

\* with_capacity: LinearMap { storage: Vec::with_capacity(capacity) }; the
\* capacity of the Vec is the one asked for.
with_capacity(capacity) == capacity

\* capacity: self.storage.capacity()
capacity(c) == c

\* reserve, reserve_exact, shrink_to_fit: the capacity after the call on a
\* map of the given capacity and storage.
reserve(c, s, additional) == Vec_reserve(c, Len(s), additional)

reserve_exact(c, s, additional) == Vec_reserve_exact(c, Len(s), additional)

shrink_to_fit(c, s) == Vec_shrink_to_fit(c, Len(s))

len(s) == Len(s)

is_empty(s) == Len(s) = 0

clear(s) == <<>>

\* The capacity after clear: Vec::clear drops the elements and keeps the
\* buffer.
\* Faulty variant: the buffer is released.
clear_capacity_release(c) == 0

clear_capacity(c) == c

\* get: for (k, v) in self.iter() { if key == k.borrow() { return Some(v) } } None
RECURSIVE get_from(_, _, _)
get_from(s, key, i) ==
    IF i >= Len(s) THEN None
    ELSE IF key = s[i + 1][1] THEN Some(s[i + 1][2])
    ELSE get_from(s, key, i + 1)

\* Faulty variant: the scan starts at index 1.
get_skip_first(s, key) == get_from(s, key, 1)

get(s, key) == get_from(s, key, 0)

\* get_mut: the same scan over iter_mut(); the result refers to the value of
\* the pair found, given here as that pair's index.
RECURSIVE get_mut_from(_, _, _)
get_mut_from(s, key, i) ==
    IF i >= Len(s) THEN None
    ELSE IF key = s[i + 1][1] THEN Some(i)
    ELSE get_mut_from(s, key, i + 1)

get_mut(s, key) == get_mut_from(s, key, 0)

contains_key(s, key) == is_some(get(s, key))

\* Option::expect: the value of Some, a panic with the message on None.
expect(o, msg) ==
    IF o = None
    THEN [ret |-> None, panic |-> TRUE, msg |-> msg]
    ELSE [ret |-> o, panic |-> FALSE, msg |-> ""]

\* Index::index: self.get(key).expect("key not found")
\* Faulty variant: a default value is returned for a key that is not found.
index_or_default(s, key) ==
    IF get(s, key) = None
    THEN [ret |-> Some(FALSE), panic |-> FALSE, msg |-> ""]
    ELSE [ret |-> get(s, key), panic |-> FALSE, msg |-> ""]

Index_index(s, key) == expect(get(s, key), "key not found")

\* A write of value through a reference to the value of the pair at index.
write(s, index, value) == [s EXCEPT ![index + 1] = <<s[index + 1][1], value>>]

\* entry: position of the key, then Vacant { key } or Occupied { index }.
\* Faulty variant: the scan stops at the first pair whose key differs.
RECURSIVE position_ne_from(_, _, _)
position_ne_from(s, key, i) ==
    IF i >= Len(s) THEN None
    ELSE IF key # s[i + 1][1] THEN Some(i)
    ELSE position_ne_from(s, key, i + 1)

entry_ne(s, key) ==
    LET p == position_ne_from(s, key, 0)
    IN IF p = None
       THEN [tag |-> "Vacant", key |-> Some(key), index |-> None]
       ELSE [tag |-> "Occupied", key |-> None, index |-> p]

\* Faulty variant: the index handed to the OccupiedEntry is one past the
\* position found.
entry_index_past(s, key) ==
    LET p == position(s, key)
    IN IF p = None
       THEN [tag |-> "Vacant", key |-> Some(key), index |-> None]
       ELSE [tag |-> "Occupied", key |-> None, index |-> Some(p[1] + 1)]

\* Faulty variant: the index handed to the OccupiedEntry is that of the last
\* pair.
entry_index_last(s, key) ==
    LET p == position(s, key)
    IN IF p = None
       THEN [tag |-> "Vacant", key |-> Some(key), index |-> None]
       ELSE [tag |-> "Occupied", key |-> None, index |-> Some(Len(s) - 1)]

entry(s, key) ==
    LET p == position(s, key)
    IN IF p = None
       THEN [tag |-> "Vacant", key |-> Some(key), index |-> None]
       ELSE [tag |-> "Occupied", key |-> None, index |-> p]

NoEntry == [tag |-> "NoEntry", key |-> None, index |-> None]

\* OccupiedEntry::get: &self.map.storage[self.index].1
\* Faulty variant: the value of the first pair is read.
OccupiedEntry_get_first(s, e) ==
    IF Len(s) = 0
    THEN [ret |-> None, panic |-> TRUE]
    ELSE [ret |-> Some(s[1][2]), panic |-> FALSE]

OccupiedEntry_get(s, e) ==
    IF e.index[1] >= Len(s)
    THEN [ret |-> None, panic |-> TRUE]
    ELSE [ret |-> Some(s[e.index[1] + 1][2]), panic |-> FALSE]

\* OccupiedEntry::get_mut and into_mut: &mut self.map.storage[self.index].1
OccupiedEntry_get_mut(s, e) ==
    IF e.index[1] >= Len(s)
    THEN [ret |-> None, panic |-> TRUE]
    ELSE [ret |-> Some(e.index[1]), panic |-> FALSE]

OccupiedEntry_into_mut(s, e) == OccupiedEntry_get_mut(s, e)

\* OccupiedEntry::insert: mem::replace(self.get_mut(), value)
\* Faulty variant: the old value is read and the new one is not stored.
OccupiedEntry_insert_keep(s, e, value) ==
    LET r == OccupiedEntry_get_mut(s, e)
    IN IF r.panic
       THEN [storage |-> s, ret |-> None, panic |-> TRUE]
       ELSE [storage |-> s, ret |-> Some(s[r.ret[1] + 1][2]), panic |-> FALSE]

OccupiedEntry_insert(s, e, value) ==
    LET r == OccupiedEntry_get_mut(s, e)
    IN IF r.panic
       THEN [storage |-> s, ret |-> None, panic |-> TRUE]
       ELSE [storage |-> write(s, r.ret[1], value),
             ret |-> Some(s[r.ret[1] + 1][2]),
             panic |-> FALSE]

\* OccupiedEntry::remove: self.map.storage.swap_remove(self.index).1
\* Faulty variant: the pairs after the index are shifted down (Vec::remove).
OccupiedEntry_remove_shift(s, e) ==
    LET r == swap_remove_shift(s, e.index[1])
    IN IF r.panic
       THEN [storage |-> s, ret |-> None, panic |-> TRUE]
       ELSE [storage |-> r.vec, ret |-> Some(r.ret[1][2]), panic |-> FALSE]

OccupiedEntry_remove(s, e) ==
    LET r == swap_remove(s, e.index[1])
    IN IF r.panic
       THEN [storage |-> s, ret |-> None, panic |-> TRUE]
       ELSE [storage |-> r.vec, ret |-> Some(r.ret[1][2]), panic |-> FALSE]

\* VacantEntry::insert: push((key, value)), then a reference to the value of
\* the last pair (last_mut().unwrap() panics on an empty Vec).
\* Faulty variant: the pair is put in front.
VacantEntry_insert_front(s, e, value) ==
    [storage |-> <<<<e.key[1], value>>>> \o s, ret |-> Some(0), panic |-> FALSE]

VacantEntry_insert(s, e, value) ==
    LET pushed == push(s, <<e.key[1], value>>)
    IN IF Len(pushed) = 0
       THEN [storage |-> pushed, ret |-> None, panic |-> TRUE]
       ELSE [storage |-> pushed, ret |-> Some(Len(pushed) - 1), panic |-> FALSE]

\* Entry::or_insert
\* Faulty variant: the default is stored in the Occupied arm too.
Entry_or_insert_overwrite(s, e, default) ==
    IF e.tag = "Occupied"
    THEN LET r == OccupiedEntry_into_mut(s, e)
         IN [storage |-> write(s, r.ret[1], default), ret |-> r.ret, panic |-> r.panic]
    ELSE VacantEntry_insert(s, e, default)

Entry_or_insert(s, e, default) ==
    IF e.tag = "Occupied"
    THEN LET r == OccupiedEntry_into_mut(s, e)
         IN [storage |-> s, ret |-> r.ret, panic |-> r.panic]
    ELSE VacantEntry_insert(s, e, default)

\* Entry::or_insert_with: default() is called in the Vacant arm only; calls
\* counts its invocations.
\* Faulty variant: default() is called before the match, in both arms.
Entry_or_insert_with_eager(s, e, default) ==
    IF e.tag = "Occupied"
    THEN LET r == OccupiedEntry_into_mut(s, e)
         IN [storage |-> s, ret |-> r.ret, panic |-> r.panic, calls |-> 1]
    ELSE LET r == VacantEntry_insert(s, e, default)
         IN [storage |-> r.storage, ret |-> r.ret, panic |-> r.panic, calls |-> 1]

Entry_or_insert_with(s, e, default) ==
    IF e.tag = "Occupied"
    THEN LET r == OccupiedEntry_into_mut(s, e)
         IN [storage |-> s, ret |-> r.ret, panic |-> r.panic, calls |-> 0]
    ELSE LET r == VacantEntry_insert(s, e, default)
         IN [storage |-> r.storage, ret |-> r.ret, panic |-> r.panic, calls |-> 1]

\* insert: match self.entry(key) { Occupied(e) => Some(e.insert(value)),
\*                                 Vacant(e) => { e.insert(value); None } }
\* Faulty variant: the pair is pushed without looking for the key.
insert_always_push(s, key, value) ==
    [storage |-> push(s, <<key, value>>), ret |-> None, panic |-> FALSE]

\* Faulty variant: a key that is present is removed and pushed again.
insert_move_to_back(s, key, value) ==
    LET p == position(s, key)
    IN IF p = None
       THEN [storage |-> push(s, <<key, value>>), ret |-> None, panic |-> FALSE]
       ELSE [storage |-> push(swap_remove(s, p[1]).vec, <<key, value>>),
             ret |-> Some(s[p[1] + 1][2]),
             panic |-> FALSE]

insert(s, key, value) ==
    LET e == entry(s, key)
    IN IF e.tag = "Occupied"
       THEN LET r == OccupiedEntry_insert(s, e, value)
            IN [storage |-> r.storage, ret |-> r.ret, panic |-> r.panic]
       ELSE LET r == VacantEntry_insert(s, e, value)
            IN [storage |-> r.storage, ret |-> None, panic |-> r.panic]

\* remove: for i in 0..len { if key == storage[i].0 { swap_remove(i); return
\* Some(v) } } None
RECURSIVE remove_from(_, _, _)
remove_from(s, key, i) ==
    IF i >= Len(s) THEN [storage |-> s, ret |-> None, panic |-> FALSE]
    ELSE IF key = s[i + 1][1]
         THEN LET r == swap_remove(s, i)
              IN IF r.panic
                 THEN [storage |-> s, ret |-> None, panic |-> TRUE]
                 ELSE [storage |-> r.vec, ret |-> Some(r.ret[1][2]), panic |-> FALSE]
         ELSE remove_from(s, key, i + 1)

\* Faulty variant: the last pair is dropped when the key is not found.
remove_pop_when_absent(s, key) ==
    LET r == remove_from(s, key, 0)
    IN IF r.ret = None /\ Len(s) > 0
       THEN [storage |-> SubSeq(s, 1, Len(s) - 1), ret |-> None, panic |-> FALSE]
       ELSE r

remove(s, key) == remove_from(s, key, 0)

\* extend: for (key, value) in key_values { self.insert(key, value); }
\* Faulty variant: a pair whose key is present is skipped.
RECURSIVE extend_skip_present(_, _)
extend_skip_present(s, key_values) ==
    IF key_values = <<>> THEN s
    ELSE IF contains_key(s, Head(key_values)[1])
         THEN extend_skip_present(s, Tail(key_values))
         ELSE extend_skip_present(insert(s, Head(key_values)[1], Head(key_values)[2]).storage,
                                  Tail(key_values))

RECURSIVE extend(_, _)
extend(s, key_values) ==
    IF key_values = <<>> THEN s
    ELSE extend(insert(s, Head(key_values)[1], Head(key_values)[2]).storage,
                Tail(key_values))

\* from_iter: let mut map = Self::new(); map.extend(key_values); map
\* Faulty variant: the first pair of the sequence is skipped.
from_iter_skip_first(key_values) ==
    IF key_values = <<>> THEN new ELSE extend(new, Tail(key_values))

from_iter(key_values) == extend(new, key_values)

\* Into<Vec<(K, V)>>::into: self.storage, the Vec itself with its pairs as
\* they are stored.
into(s) == s

\* eq: the lengths are equal and every pair of self is found in other by get.
RECURSIVE eq_from(_, _, _)
eq_from(self, that, i) ==
    IF i >= Len(self) THEN TRUE
    ELSE IF get(that, self[i + 1][1]) # Some(self[i + 1][2]) THEN FALSE
    ELSE eq_from(self, that, i + 1)

\* Faulty variant: the lengths are not compared.
eq_no_len(self, that) == eq_from(self, that, 0)

\* Faulty variant: a shorter left operand passes the length test.
eq_len_le(self, that) ==
    IF len(self) > len(that) THEN FALSE ELSE eq_from(self, that, 0)

eq(self, that) ==
    IF len(self) # len(that) THEN FALSE ELSE eq_from(self, that, 0)

\* drain: Drain { iter: self.storage.drain(..) }.  Vec::drain(..) sets the
\* length of the Vec to 0 and hands every element to the iterator.
\* Faulty variant: drain(1..), which leaves the first pair in the Vec.
drain_call_from_one(s) ==
    IF s = <<>> THEN [storage |-> <<>>, iter |-> s]
    ELSE [storage |-> <<Head(s)>>, iter |-> Tail(s)]

drain_call(s) == [storage |-> <<>>, iter |-> s]

\* Drain::next: self.iter.next()
Drain_next(it) ==
    IF it = <<>> THEN [iter |-> it, ret |-> None]
    ELSE [iter |-> Tail(it), ret |-> Some(Head(it))]

\* Drain::next_back: self.iter.next_back()
Drain_next_back(it) ==
    IF it = <<>> THEN [iter |-> it, ret |-> None]
    ELSE [iter |-> SubSeq(it, 1, Len(it) - 1), ret |-> Some(it[Len(it)])]

\* Dropping the Drain: vec::Drain's drop releases what was not yielded and
\* moves the tail after the drained range back; the range was the whole Vec,
\* so nothing returns to it.
\* Faulty variant: what was not yielded returns to the Vec.
Drain_drop_restore(s, it) == s \o it

Drain_drop(s, it) == s

\* slice::Iter, slice::IterMut and vec::IntoIter keep the elements not yet
\* yielded; next takes the first of them and next_back the last.
slice_next(it) ==
    IF it = <<>> THEN [iter |-> it, ret |-> None]
    ELSE [iter |-> Tail(it), ret |-> Some(Head(it))]

slice_next_back(it) ==
    IF it = <<>> THEN [iter |-> it, ret |-> None]
    ELSE [iter |-> SubSeq(it, 1, Len(it) - 1), ret |-> Some(it[Len(it)])]

\* Option::map with the closures of the iterators: |e| (&e.0, &e.1) on an
\* element of the slice, |e| e.0 and |e| e.1 on an item of Iter.
map_pair(o) == IF o = None THEN None ELSE Some(<<o[1][1], o[1][2]>>)

map_0(o) == IF o = None THEN None ELSE Some(o[1][1])

map_1(o) == IF o = None THEN None ELSE Some(o[1][2])

\* iter, iter_mut, keys, values, into_iter: the iterator starts on the whole
\* storage.
iter_call(s) == s

\* Iter::next, next_back, len: self.iter.next().map(|e| (&e.0, &e.1))
Iter_next(it) ==
    LET r == slice_next(it)
    IN [iter |-> r.iter, ret |-> map_pair(r.ret)]

\* Faulty variant: next_back takes from the front.
Iter_next_back_front(it) == Iter_next(it)

Iter_next_back(it) ==
    LET r == slice_next_back(it)
    IN [iter |-> r.iter, ret |-> map_pair(r.ret)]

Iter_len(it) == Len(it)

\* IterMut::next, next_back, len: self.iter.next().map(|e| (&e.0, &mut e.1))
IterMut_next(it) ==
    LET r == slice_next(it)
    IN [iter |-> r.iter, ret |-> map_pair(r.ret)]

IterMut_next_back(it) ==
    LET r == slice_next_back(it)
    IN [iter |-> r.iter, ret |-> map_pair(r.ret)]

IterMut_len(it) == Len(it)

\* Keys::next, next_back, len: self.iter.next().map(|e| e.0) on an Iter
Keys_next(it) ==
    LET r == Iter_next(it)
    IN [iter |-> r.iter, ret |-> map_0(r.ret)]

Keys_next_back(it) ==
    LET r == Iter_next_back(it)
    IN [iter |-> r.iter, ret |-> map_0(r.ret)]

Keys_len(it) == Iter_len(it)

\* Values::next, next_back, len: self.iter.next().map(|e| e.1) on an Iter
Values_next(it) ==
    LET r == Iter_next(it)
    IN [iter |-> r.iter, ret |-> map_1(r.ret)]

Values_next_back(it) ==
    LET r == Iter_next_back(it)
    IN [iter |-> r.iter, ret |-> map_1(r.ret)]

Values_len(it) == Iter_len(it)

\* IntoIter::next, next_back, len: self.iter.next() on a vec::IntoIter
IntoIter_next(it) == slice_next(it)

IntoIter_next_back(it) == slice_next_back(it)

IntoIter_len(it) == Len(it)

\* Drain::len: self.iter.len()
Drain_len(it) == Len(it)

\* next, next_back and len of the iterator of the given kind.
Iterator_next(kind, it) ==
    CASE kind = "iter" -> Iter_next(it)
      [] kind = "iter_mut" -> IterMut_next(it)
      [] kind = "keys" -> Keys_next(it)
      [] kind = "values" -> Values_next(it)
      [] kind = "into_iter" -> IntoIter_next(it)

Iterator_next_back(kind, it) ==
    CASE kind = "iter" -> Iter_next_back(it)
      [] kind = "iter_mut" -> IterMut_next_back(it)
      [] kind = "keys" -> Keys_next_back(it)
      [] kind = "values" -> Values_next_back(it)
      [] kind = "into_iter" -> IntoIter_next_back(it)

Iterator_len(kind, it) ==
    CASE kind = "iter" -> Iter_len(it)
      [] kind = "iter_mut" -> IterMut_len(it)
      [] kind = "keys" -> Keys_len(it)
      [] kind = "values" -> Values_len(it)
      [] kind = "into_iter" -> IntoIter_len(it)

\* slice::Iter::clone: an iterator over the same pairs, those the cloned one
\* has not yielded.
slice_clone(it) == SubSeq(it, 1, Len(it))

\* Iter::clone, Keys::clone, Values::clone: a clone of the iterator inside.
Iter_clone(it) == slice_clone(it)

Keys_clone(it) == Iter_clone(it)

Values_clone(it) == Iter_clone(it)

Iterator_clone(kind, it) ==
    CASE kind = "iter" -> Iter_clone(it)
      [] kind = "keys" -> Keys_clone(it)
      [] kind = "values" -> Values_clone(it)

\* size_hint of slice and Vec iterators: the number of items left, exactly.
slice_size_hint(it) == <<Len(it), Some(Len(it))>>

Iter_size_hint(it) == slice_size_hint(it)

IterMut_size_hint(it) == slice_size_hint(it)

Keys_size_hint(it) == Iter_size_hint(it)

Values_size_hint(it) == Iter_size_hint(it)

IntoIter_size_hint(it) == slice_size_hint(it)

Drain_size_hint(it) == slice_size_hint(it)

Iterator_size_hint(kind, it) ==
    CASE kind = "iter" -> Iter_size_hint(it)
      [] kind = "iter_mut" -> IterMut_size_hint(it)
      [] kind = "keys" -> Keys_size_hint(it)
      [] kind = "values" -> Values_size_hint(it)
      [] kind = "into_iter" -> IntoIter_size_hint(it)

\* What iter() yields when next() is called until it returns None.
RECURSIVE collect(_)
collect(it) ==
    LET r == Iter_next(it)
    IN IF r.ret = None THEN <<>> ELSE <<r.ret[1]>> \o collect(r.iter)

\* iter_mut: every value is handed out once as &mut V, in storage order; the
\* caller writes values[i + 1] through the reference to the value at index i.
RECURSIVE iter_mut_write(_, _, _)
iter_mut_write(s, values, i) ==
    IF i >= Len(s) THEN s
    ELSE iter_mut_write(write(s, i, values[i + 1]), values, i + 1)

----------------------------------------------------------------------------
\* Clone.  clone() gives a map whose storage is a copy of every pair, in
\* storage order.  clone_from(other) is Vec::clone_from on the storages: self
\* is truncated to the length of other, the pairs it keeps are overwritten
\* one by one by the pairs of other at the same index, and the pairs of other
\* past them are appended (extend_from_slice, which reserves for them).

Min(a, b) == IF a <= b THEN a ELSE b

Vec_clone(s) == [i \in 1..Len(s) |-> s[i]]

Vec_clone_from(s, o) ==
    LET kept == Min(Len(s), Len(o))
        overwritten == [i \in 1..kept |-> o[i]]
    IN overwritten \o SubSeq(o, kept + 1, Len(o))

Vec_clone_from_capacity(c, s, o) ==
    LET kept == Min(Len(s), Len(o))
    IN Vec_reserve(c, kept, Len(o) - kept)

clone(s) == Vec_clone(s)

clone_from(s, o) == Vec_clone_from(s, o)

clone_from_capacity(c, s, o) == Vec_clone_from_capacity(c, s, o)

----------------------------------------------------------------------------
\* History of the calls.  A run makes any number of calls and then one call
\* that is observed: last is NoCall until that call and holds it afterwards,
\* and the run ends there.  Every call can be the observed one; under Spec
\* extend is never, as its argument would multiply the states.

\* calls, msg and cap are set by the calls that have them: the number of
\* calls of the producer, the message of the panic, the capacity before the
\* call.
Call(op, key, value, ret, pre, panic) ==
    [op |-> op, key |-> key, value |-> value, ret |-> ret, pre |-> pre, panic |-> panic,
     calls |-> 0, msg |-> "", cap |-> 0]

NoCall == Call("new", None, None, None, <<>>, FALSE)

Observe(call) == last' = NoCall \/ last' = call

NoDrain == [state |-> "none", orig |-> <<>>, iter |-> <<>>, yielded |-> <<>>, back |-> FALSE,
            front |-> <<>>, backs |-> <<>>]

NoHandle == [e |-> NoEntry, asked |-> None]

NoIter == [kind |-> "none", orig |-> <<>>, rest |-> <<>>, front |-> <<>>, back |-> <<>>]

\* order.keys lists the keys in the order of their first insert; order.ok
\* tells that the keys are tracked and that no call removed a pair.
NoOrder == [ok |-> FALSE, keys |-> <<>>]

OrderAfter(o, key) ==
    IF o.ok /\ \A i \in 1..Len(o.keys) : o.keys[i] # key
    THEN [o EXCEPT !.keys = Append(@, key)]
    ELSE o

RECURSIVE OrderAfterAll(_, _)
OrderAfterAll(o, key_values) ==
    IF key_values = <<>> THEN o
    ELSE OrderAfterAll(OrderAfter(o, Head(key_values)[1]), Tail(key_values))

\* reserved.additional is the argument of the last reserve() or
\* reserve_exact(), reserved.capacity the capacity it left and
\* reserved.pushes the number of pairs pushed since.
NoReserved == [ok |-> FALSE, additional |-> 0, capacity |-> 0, pushes |-> 0]

ReservedAfter(pushes) ==
    IF reserved.ok THEN [reserved EXCEPT !.pushes = @ + pushes] ELSE reserved

Stale == [ok |-> FALSE, inserted |-> <<>>, none |-> FALSE]

FreshAfterInsert(key, value, ret) ==
    IF fresh.ok /\ \A i \in 1..Len(fresh.inserted) : fresh.inserted[i][1] # key
    THEN [ok |-> TRUE,
          inserted |-> Append(fresh.inserted, <<key, value>>),
          none |-> fresh.none /\ ret = None]
    ELSE Stale

Running == last.op = "new"

\* iter(), keys() and values() take &self: the iterators they return borrow
\* the map shared.
SharedKinds == {"iter", "keys", "values"}

\* Nothing borrows the map mutably and nothing has consumed it: no Entry, no
\* Drain, no IterMut and no IntoIter is alive.  The calls that take &self can
\* happen, also while an Iter, a Keys or a Values is alive.
Readable ==
    /\ Running
    /\ handle.e.tag = "NoEntry"
    /\ drain.state = "none"
    /\ iter.kind \in SharedKinds \cup {"none"}

\* Nothing borrows the map: the calls that take &mut self or self can happen.
Idle == Readable /\ iter.kind = "none" /\ shared.kind = "none"

Init ==
    /\ storage = new
    /\ other = new
    /\ handle = NoHandle
    /\ drain = NoDrain
    /\ last = NoCall
    /\ fresh = Stale
    /\ cap = 0
    /\ iter = NoIter
    /\ shared = NoIter
    /\ order = NoOrder
    /\ reserved = NoReserved

----------------------------------------------------------------------------
\* Calls on the map.

Insert(key, value) ==
    /\ Idle
    /\ LET r == insert(storage, key, value)
       IN /\ Len(r.storage) <= MaxLen
          /\ storage' = r.storage
          /\ Observe(Call("insert", key, value, r.ret, storage, r.panic))
          /\ fresh' = FreshAfterInsert(key, value, r.ret)
    /\ UNCHANGED <<other, handle, drain>>
    /\ cap' = capacity_after(cap, Len(storage), Len(storage'))
    /\ order' = OrderAfter(order, key)
    /\ reserved' = ReservedAfter(Len(storage') - Len(storage))
    /\ UNCHANGED <<iter, shared>>

Remove(key) ==
    /\ Idle
    /\ LET r == remove(storage, key)
       IN /\ storage' = r.storage
          /\ Observe([Call("remove", key, None, r.ret, storage, r.panic) EXCEPT !.cap = cap])
    /\ fresh' = Stale
    /\ UNCHANGED <<other, handle, drain>>
    /\ order' = NoOrder
    /\ reserved' = NoReserved
    /\ UNCHANGED <<cap, iter, shared>>

Get(key) ==
    /\ Readable
    /\ Observe(Call("get", key, None, get(storage, key), storage, FALSE))
    /\ fresh' = Stale
    /\ UNCHANGED <<storage, other, handle, drain>>
    /\ UNCHANGED <<cap, iter, shared, order, reserved>>

ContainsKey(key) ==
    /\ Readable
    /\ Observe(Call("contains_key", key, None, contains_key(storage, key), storage, FALSE))
    /\ fresh' = Stale
    /\ UNCHANGED <<storage, other, handle, drain>>
    /\ UNCHANGED <<cap, iter, shared, order, reserved>>

\* get_mut(key), and a write of value through the reference when it is Some.
\* ret is Some of the value the reference pointed to before the write.
GetMut(key, value) ==
    /\ Idle
    /\ LET r == get_mut(storage, key)
       IN IF r = None
          THEN /\ storage' = storage
               /\ Observe(Call("get_mut", key, value, None, storage, FALSE))
          ELSE /\ storage' = write(storage, r[1], value)
               /\ Observe(Call("get_mut", key, value, Some(storage[r[1] + 1][2]), storage, FALSE))
    /\ fresh' = Stale
    /\ UNCHANGED <<other, handle, drain>>
    /\ UNCHANGED <<cap, iter, shared, order, reserved>>

\* for (_, v) in map.iter_mut() { *v = ... }
IterMut(values) ==
    /\ Idle
    /\ Len(values) = Len(storage)
    /\ storage' = iter_mut_write(storage, values, 0)
    /\ Observe(Call("iter_mut", None, values, None, storage, FALSE))
    /\ fresh' = Stale
    /\ UNCHANGED <<other, handle, drain>>
    /\ UNCHANGED <<cap, iter, shared, order, reserved>>

Extend(key_values) ==
    /\ Idle
    /\ LET s == extend(storage, key_values)
       IN /\ Len(s) <= MaxLen
          /\ storage' = s
    /\ Observe(Call("extend", None, key_values, None, storage, FALSE))
    /\ fresh' = Stale
    /\ UNCHANGED <<other, handle, drain>>
    /\ cap' = capacity_after(cap, Len(storage), Len(storage'))
    /\ order' = OrderAfterAll(order, key_values)
    /\ reserved' = ReservedAfter(Len(storage') - Len(storage))
    /\ UNCHANGED <<iter, shared>>

\* map[key]
Index(key) ==
    /\ Readable
    /\ LET r == Index_index(storage, key)
       IN Observe([Call("index", key, None, r.ret, storage, r.panic) EXCEPT !.msg = r.msg])
    /\ fresh' = Stale
    /\ UNCHANGED <<storage, other, handle, drain>>
    /\ UNCHANGED <<cap, iter, shared, order, reserved>>

\* let v: Vec<(K, V)> = map.into(); let rebuilt: LinearMap<K, V> =
\* v.into_iter().collect();  The map is consumed, v is what storage was and
\* other becomes the rebuilt map.
IntoVec ==
    /\ Idle
    /\ other' = from_iter(into(storage))
    /\ last' = Call("into", None, None, Some(into(storage)), storage, FALSE)
    /\ fresh' = Stale
    /\ UNCHANGED <<storage, handle, drain>>
    /\ UNCHANGED <<cap, iter, shared, order, reserved>>

Clear ==
    /\ Idle
    /\ storage' = clear(storage)
    /\ cap' = clear_capacity(cap)
    /\ Observe([Call("clear", None, None, None, storage, FALSE) EXCEPT !.cap = cap])
    /\ fresh' = Stale
    /\ UNCHANGED <<other, handle, drain>>
    /\ order' = NoOrder
    /\ reserved' = NoReserved
    /\ UNCHANGED <<iter, shared>>

\* self.clone_from(&other): the pairs of the map are replaced by those of
\* other.
CloneFrom ==
    /\ Idle
    /\ storage' = clone_from(storage, other)
    /\ cap' = clone_from_capacity(cap, storage, other)
    /\ fresh' = Stale
    /\ order' = NoOrder
    /\ reserved' = NoReserved
    /\ UNCHANGED <<other, handle, drain, last, iter, shared>>

\* let other = self.clone();
Clone ==
    /\ Readable
    /\ other' = clone(storage)
    /\ UNCHANGED <<storage, handle, drain, last, fresh>>
    /\ UNCHANGED <<cap, iter, shared, order, reserved>>

----------------------------------------------------------------------------
\* entry() and the calls on the Entry it returns.  The Entry borrows the map
\* mutably, so no other call on the map happens while it is alive.
\* handle.asked is the key entry() was called with.

EntryCall(key) ==
    /\ Idle
    /\ handle' = [e |-> entry(storage, key), asked |-> Some(key)]
    /\ Observe(Call("entry", key, None, None, storage, FALSE))
    /\ fresh' = Stale
    /\ UNCHANGED <<storage, other, drain>>
    /\ UNCHANGED <<cap, iter, shared, order, reserved>>

OccupiedGet ==
    /\ Running
    /\ handle.e.tag = "Occupied"
    /\ LET r == OccupiedEntry_get(storage, handle.e)
       IN Observe(Call("OccupiedEntry::get", handle.asked[1], None, r.ret, storage, r.panic))
    /\ UNCHANGED <<storage, other, handle, drain, fresh>>
    /\ UNCHANGED <<cap, iter, shared, order, reserved>>

\* get_mut(), and a write of value through the reference.
OccupiedGetMut(value) ==
    /\ Running
    /\ handle.e.tag = "Occupied"
    /\ LET r == OccupiedEntry_get_mut(storage, handle.e)
       IN IF r.panic
          THEN /\ storage' = storage
               /\ Observe(Call("OccupiedEntry::get_mut", handle.asked[1], value, None,
                               storage, TRUE))
          ELSE /\ storage' = write(storage, r.ret[1], value)
               /\ Observe(Call("OccupiedEntry::get_mut", handle.asked[1], value, r.ret,
                               storage, FALSE))
    /\ UNCHANGED <<other, handle, drain, fresh>>
    /\ UNCHANGED <<cap, iter, shared, order, reserved>>

OccupiedInsert(value) ==
    /\ Running
    /\ handle.e.tag = "Occupied"
    /\ LET r == OccupiedEntry_insert(storage, handle.e, value)
       IN /\ storage' = r.storage
          /\ Observe(Call("OccupiedEntry::insert", handle.asked[1], value, r.ret,
                          storage, r.panic))
    /\ UNCHANGED <<other, handle, drain, fresh>>
    /\ UNCHANGED <<cap, iter, shared, order, reserved>>

OccupiedRemove ==
    /\ Running
    /\ handle.e.tag = "Occupied"
    /\ LET r == OccupiedEntry_remove(storage, handle.e)
       IN /\ storage' = r.storage
          /\ Observe(Call("OccupiedEntry::remove", handle.asked[1], None, r.ret,
                          storage, r.panic))
    /\ handle' = NoHandle
    /\ UNCHANGED <<other, drain, fresh>>
    /\ order' = NoOrder
    /\ reserved' = NoReserved
    /\ UNCHANGED <<cap, iter, shared>>

OccupiedIntoMut ==
    /\ Running
    /\ handle.e.tag = "Occupied"
    /\ LET r == OccupiedEntry_into_mut(storage, handle.e)
       IN Observe(Call("OccupiedEntry::into_mut", handle.asked[1], None, r.ret,
                       storage, r.panic))
    /\ handle' = NoHandle
    /\ UNCHANGED <<storage, other, drain, fresh>>
    /\ UNCHANGED <<cap, iter, shared, order, reserved>>

VacantInsert(value) ==
    /\ Running
    /\ handle.e.tag = "Vacant"
    /\ LET r == VacantEntry_insert(storage, handle.e, value)
       IN /\ Len(r.storage) <= MaxLen
          /\ storage' = r.storage
          /\ Observe(Call("VacantEntry::insert", handle.asked[1], value, r.ret,
                          storage, r.panic))
    /\ handle' = NoHandle
    /\ UNCHANGED <<other, drain, fresh>>
    /\ cap' = capacity_after(cap, Len(storage), Len(storage'))
    /\ order' = OrderAfter(order, handle.asked[1])
    /\ reserved' = ReservedAfter(Len(storage') - Len(storage))
    /\ UNCHANGED <<iter, shared>>

OrInsert(default) ==
    /\ Running
    /\ handle.e.tag \in {"Occupied", "Vacant"}
    /\ LET r == Entry_or_insert(storage, handle.e, default)
       IN /\ Len(r.storage) <= MaxLen
          /\ storage' = r.storage
          /\ Observe(Call("or_insert", handle.asked[1], default, r.ret, storage, r.panic))
    /\ handle' = NoHandle
    /\ UNCHANGED <<other, drain, fresh>>
    /\ cap' = capacity_after(cap, Len(storage), Len(storage'))
    /\ order' = OrderAfter(order, handle.asked[1])
    /\ reserved' = ReservedAfter(Len(storage') - Len(storage))
    /\ UNCHANGED <<iter, shared>>

OrInsertWith(default) ==
    /\ Running
    /\ handle.e.tag \in {"Occupied", "Vacant"}
    /\ LET r == Entry_or_insert_with(storage, handle.e, default)
       IN /\ Len(r.storage) <= MaxLen
          /\ storage' = r.storage
          /\ Observe([Call("or_insert_with", handle.asked[1], default, r.ret,
                           storage, r.panic) EXCEPT !.calls = r.calls])
    /\ handle' = NoHandle
    /\ UNCHANGED <<other, drain, fresh>>
    /\ cap' = capacity_after(cap, Len(storage), Len(storage'))
    /\ order' = OrderAfter(order, handle.asked[1])
    /\ reserved' = ReservedAfter(Len(storage') - Len(storage))
    /\ UNCHANGED <<iter, shared>>

\* The Entry goes out of scope unused.
EntryDrop ==
    /\ Running
    /\ handle.e.tag \in {"Occupied", "Vacant"}
    /\ handle' = NoHandle
    /\ Observe(Call("drop_entry", handle.asked[1], None, None, storage, FALSE))
    /\ UNCHANGED <<storage, other, drain, fresh>>
    /\ UNCHANGED <<cap, iter, shared, order, reserved>>

----------------------------------------------------------------------------
\* drain() and the calls on the Drain it returns, which borrows the map
\* mutably until it is dropped.  drain.orig is the storage drain() was called
\* on, drain.yielded what next() and next_back() returned so far, in order,
\* drain.front what next() returned and drain.backs what next_back() returned.

DrainCall ==
    /\ Idle
    /\ LET r == drain_call(storage)
       IN /\ storage' = r.storage
          /\ drain' = [state |-> "live", orig |-> storage, iter |-> r.iter,
                       yielded |-> <<>>, back |-> FALSE, front |-> <<>>, backs |-> <<>>]
    /\ fresh' = Stale
    /\ UNCHANGED <<other, handle, last>>
    /\ order' = NoOrder
    /\ reserved' = NoReserved
    /\ UNCHANGED <<cap, iter, shared>>

DrainNext ==
    /\ Running
    /\ drain.state = "live"
    /\ LET r == Drain_next(drain.iter)
       IN drain' = [drain EXCEPT !.iter = r.iter,
                                 !.yielded = IF r.ret = None THEN @ ELSE Append(@, r.ret[1]),
                                 !.front = IF r.ret = None THEN @ ELSE Append(@, r.ret[1])]
    /\ UNCHANGED <<storage, other, handle, last, fresh>>
    /\ UNCHANGED <<cap, iter, shared, order, reserved>>

DrainNextBack ==
    /\ Running
    /\ drain.state = "live"
    /\ LET r == Drain_next_back(drain.iter)
       IN drain' = [drain EXCEPT !.iter = r.iter,
                                 !.yielded = IF r.ret = None THEN @ ELSE Append(@, r.ret[1]),
                                 !.backs = IF r.ret = None THEN @ ELSE Append(@, r.ret[1]),
                                 !.back = TRUE]
    /\ UNCHANGED <<storage, other, handle, last, fresh>>
    /\ UNCHANGED <<cap, iter, shared, order, reserved>>

\* The Drain is dropped.  When the drop is the observed call, drain keeps
\* what was yielded and what was not.
DrainDrop ==
    /\ Running
    /\ drain.state = "live"
    /\ storage' = Drain_drop(storage, drain.iter)
    /\ \/ /\ drain' = NoDrain
          /\ last' = NoCall
       \/ /\ drain' = [drain EXCEPT !.state = "dropped"]
          /\ last' = Call("drop_drain", None, None, None, storage, FALSE)
    /\ UNCHANGED <<other, handle, fresh>>
    /\ UNCHANGED <<cap, iter, shared, order, reserved>>

----------------------------------------------------------------------------
\* iter(), iter_mut(), keys(), values() and into_iter(), and the calls on the
\* iterator returned.  iter.orig is what the iterator was made on (the
\* storage, or for a clone what the cloned iterator had not yielded),
\* iter.rest what it has not yielded, iter.front what next() returned and
\* iter.back what next_back() returned, each in the order of the calls.
\* An IterMut borrows the map mutably and an IntoIter has consumed it, so no
\* call on the map happens while one is alive.  An Iter, a Keys and a Values
\* borrow the map shared: the calls that take &self happen while they are
\* alive, among them the call that makes a second one, which shared holds.

IterKinds == {"iter", "iter_mut", "keys", "values", "into_iter"}

IterCall(kind) ==
    /\ IF kind \in SharedKinds THEN Readable /\ iter.kind = "none" ELSE Idle
    /\ iter' = [kind |-> kind, orig |-> storage, rest |-> iter_call(storage),
                front |-> <<>>, back |-> <<>>]
    /\ fresh' = Stale
    /\ UNCHANGED <<storage, other, handle, drain, last, cap, order, reserved, shared>>

IterNext ==
    /\ Running
    /\ iter.kind # "none"
    /\ LET r == Iterator_next(iter.kind, iter.rest)
       IN iter' = [iter EXCEPT !.rest = r.iter,
                               !.front = IF r.ret = None THEN @ ELSE Append(@, r.ret[1])]
    /\ UNCHANGED <<storage, other, handle, drain, last, fresh, cap, order, reserved, shared>>

IterNextBack ==
    /\ Running
    /\ iter.kind # "none"
    /\ LET r == Iterator_next_back(iter.kind, iter.rest)
       IN iter' = [iter EXCEPT !.rest = r.iter,
                               !.back = IF r.ret = None THEN @ ELSE Append(@, r.ret[1])]
    /\ UNCHANGED <<storage, other, handle, drain, last, fresh, cap, order, reserved, shared>>

\* The iterator is dropped.  The map into_iter() consumed is gone with it,
\* and the run ends.
IterDrop ==
    /\ Running
    /\ iter.kind # "none"
    /\ iter' = NoIter
    /\ last' = IF iter.kind = "into_iter"
               THEN Call("drop_into_iter", None, None, None, iter.orig, FALSE)
               ELSE last
    /\ UNCHANGED <<storage, other, handle, drain, fresh, cap, order, reserved, shared>>

\* iter(), keys() or values() while an Iter, a Keys or a Values is alive.
SharedCall(kind) ==
    /\ Readable
    /\ iter.kind \in SharedKinds
    /\ shared.kind = "none"
    /\ shared' = [kind |-> kind, orig |-> storage, rest |-> iter_call(storage),
                  front |-> <<>>, back |-> <<>>]
    /\ fresh' = Stale
    /\ UNCHANGED <<storage, other, handle, drain, last, cap, iter, order, reserved>>

\* let second = first.clone(), of an Iter, a Keys or a Values: the clone is
\* of the same kind and stands where the cloned iterator stands, and has
\* yielded nothing.
IterClone ==
    /\ Readable
    /\ iter.kind \in SharedKinds
    /\ shared.kind = "none"
    /\ shared' = [kind |-> iter.kind, orig |-> iter.rest,
                  rest |-> Iterator_clone(iter.kind, iter.rest),
                  front |-> <<>>, back |-> <<>>]
    /\ UNCHANGED <<storage, other, handle, drain, last, fresh, cap, iter, order, reserved>>

\* The same when the first iterator is gone and the second is cloned.
SharedClone ==
    /\ Readable
    /\ iter.kind = "none"
    /\ shared.kind # "none"
    /\ iter' = [kind |-> shared.kind, orig |-> shared.rest,
                rest |-> Iterator_clone(shared.kind, shared.rest),
                front |-> <<>>, back |-> <<>>]
    /\ UNCHANGED <<storage, other, handle, drain, last, fresh, cap, order, reserved, shared>>

SharedNext ==
    /\ Running
    /\ shared.kind # "none"
    /\ LET r == Iterator_next(shared.kind, shared.rest)
       IN shared' = [shared EXCEPT !.rest = r.iter,
                                   !.front = IF r.ret = None THEN @ ELSE Append(@, r.ret[1])]
    /\ UNCHANGED <<storage, other, handle, drain, last, fresh, cap, iter, order, reserved>>

SharedNextBack ==
    /\ Running
    /\ shared.kind # "none"
    /\ LET r == Iterator_next_back(shared.kind, shared.rest)
       IN shared' = [shared EXCEPT !.rest = r.iter,
                                   !.back = IF r.ret = None THEN @ ELSE Append(@, r.ret[1])]
    /\ UNCHANGED <<storage, other, handle, drain, last, fresh, cap, iter, order, reserved>>

SharedDrop ==
    /\ Running
    /\ shared.kind # "none"
    /\ shared' = NoIter
    /\ UNCHANGED <<storage, other, handle, drain, last, fresh, cap, iter, order, reserved>>

----------------------------------------------------------------------------
Next ==
    \/ \E key \in Keys, value \in Vals : Insert(key, value)
    \/ \E key \in Keys : Remove(key)
    \/ \E key \in Keys : Get(key)
    \/ \E key \in Keys : ContainsKey(key)
    \/ \E key \in Keys : Index(key)
    \/ \E key \in Keys, value \in Vals : GetMut(key, value)
    \/ Running /\ \E values \in IterMutInputs : IterMut(values)
    \/ Running /\ \E key_values \in ExtendInputs : Extend(key_values) /\ last' = NoCall
    \/ IntoVec
    \/ Clear
    \/ CloneFrom
    \/ \E key \in Keys : EntryCall(key)
    \/ OccupiedGet
    \/ \E value \in Vals : OccupiedGetMut(value)
    \/ \E value \in Vals : OccupiedInsert(value)
    \/ OccupiedRemove
    \/ OccupiedIntoMut
    \/ \E value \in Vals : VacantInsert(value)
    \/ \E default \in Vals : OrInsert(default)
    \/ \E default \in Vals : OrInsertWith(default)
    \/ EntryDrop
    \/ DrainCall
    \/ DrainNext
    \/ DrainNextBack
    \/ DrainDrop
    \/ \E kind \in IterKinds : IterCall(kind)
    \/ IterNext
    \/ IterNextBack
    \/ IterDrop

Spec == Init /\ [][Next]_vars

----------------------------------------------------------------------------
\* Two maps, each built by insert and remove, by clone() of the one and by
\* clone_from() of the other, compared by ==.

EqInsertSelf(key, value) ==
    /\ LET r == insert(storage, key, value)
       IN /\ Len(r.storage) <= EqMaxLen
          /\ storage' = r.storage
    /\ UNCHANGED <<other, handle, drain, last, fresh>>
    /\ cap' = capacity_after(cap, Len(storage), Len(storage'))
    /\ UNCHANGED <<iter, shared, order, reserved>>

EqInsertOther(key, value) ==
    /\ LET r == insert(other, key, value)
       IN /\ Len(r.storage) <= EqMaxLen
          /\ other' = r.storage
    /\ UNCHANGED <<storage, handle, drain, last, fresh>>
    /\ UNCHANGED <<cap, iter, shared, order, reserved>>

EqRemoveSelf(key) ==
    /\ storage' = remove(storage, key).storage
    /\ UNCHANGED <<other, handle, drain, last, fresh>>
    /\ UNCHANGED <<cap, iter, shared, order, reserved>>

EqRemoveOther(key) ==
    /\ other' = remove(other, key).storage
    /\ UNCHANGED <<storage, handle, drain, last, fresh>>
    /\ UNCHANGED <<cap, iter, shared, order, reserved>>

NextEq ==
    \/ \E key \in EqKeys, value \in Vals : EqInsertSelf(key, value)
    \/ \E key \in EqKeys, value \in Vals : EqInsertOther(key, value)
    \/ \E key \in EqKeys : EqRemoveSelf(key)
    \/ \E key \in EqKeys : EqRemoveOther(key)
    \/ Clone
    \/ CloneFrom

SpecEq == Init /\ [][NextEq]_vars

----------------------------------------------------------------------------
\* Runs with two shared iterators alive at a time: the map is built by insert
\* and remove while nothing borrows it, iter(), keys() and values() are
\* called, also while one of their iterators is alive, the iterators are
\* stepped from both ends in any interleaving and cloned, and get,
\* contains_key and map[key] are called in between.

NextShared ==
    \/ \E key \in EqKeys, value \in Vals : Idle /\ EqInsertSelf(key, value)
    \/ \E key \in EqKeys : Idle /\ EqRemoveSelf(key)
    \/ \E kind \in SharedKinds : IterCall(kind)
    \/ IterNext
    \/ IterNextBack
    \/ IterDrop
    \/ \E kind \in SharedKinds : SharedCall(kind)
    \/ SharedNext
    \/ SharedNextBack
    \/ SharedDrop
    \/ IterClone
    \/ SharedClone
    \/ \E key \in EqKeys : Get(key) /\ last'.op = "new"
    \/ \E key \in EqKeys : ContainsKey(key) /\ last'.op = "new"
    \/ \E key \in EqKeys : Index(key) /\ last'.op = "new"

SpecShared == Init /\ [][NextShared]_vars

----------------------------------------------------------------------------
\* Runs that only insert into a new map.  fresh.inserted lists the pairs
\* inserted while every insert had a key not inserted before, and fresh.none
\* tells whether each of these inserts returned None.

InitFresh ==
    /\ storage = new
    /\ other = new
    /\ handle = NoHandle
    /\ drain = NoDrain
    /\ last = NoCall
    /\ fresh = [ok |-> TRUE, inserted |-> <<>>, none |-> TRUE]
    /\ cap = 0
    /\ iter = NoIter
    /\ shared = NoIter
    /\ order = NoOrder
    /\ reserved = NoReserved

NextFresh == \E key \in Keys, value \in Vals : Insert(key, value)

SpecFresh == InitFresh /\ [][NextFresh]_vars

----------------------------------------------------------------------------
\* Runs from a new map of calls that never remove a pair: insert, extend,
\* writes through get_mut and iter_mut, entry and the calls on the Entry
\* other than remove.  order.keys lists the keys in the order of their first
\* insert.

InitOrder ==
    /\ storage = new
    /\ other = new
    /\ handle = NoHandle
    /\ drain = NoDrain
    /\ last = NoCall
    /\ fresh = Stale
    /\ cap = 0
    /\ iter = NoIter
    /\ shared = NoIter
    /\ order = [ok |-> TRUE, keys |-> <<>>]
    /\ reserved = NoReserved

NextOrder ==
    \/ \E key \in Keys, value \in Vals : Insert(key, value)
    \/ \E key \in Keys, value \in Vals : GetMut(key, value)
    \/ Running /\ \E values \in IterMutInputs : IterMut(values)
    \/ Running /\ \E key_values \in ExtendInputs : Extend(key_values) /\ last' = NoCall
    \/ \E key \in Keys : EntryCall(key)
    \/ OccupiedGet
    \/ \E value \in Vals : OccupiedGetMut(value)
    \/ \E value \in Vals : OccupiedInsert(value)
    \/ OccupiedIntoMut
    \/ \E value \in Vals : VacantInsert(value)
    \/ \E default \in Vals : OrInsert(default)
    \/ \E default \in Vals : OrInsertWith(default)
    \/ EntryDrop

SpecOrder == InitOrder /\ [][NextOrder]_vars

----------------------------------------------------------------------------
\* Runs that construct maps by new() and with_capacity(), reserve capacity,
\* shrink it, and insert and remove keys.  The values play no part in the
\* capacity and are all TRUE here.

New ==
    /\ Idle
    /\ storage' = new
    /\ cap' = 0
    /\ Observe(Call("LinearMap::new", None, None, None, storage, FALSE))
    /\ fresh' = Stale
    /\ order' = NoOrder
    /\ reserved' = NoReserved
    /\ UNCHANGED <<other, handle, drain, iter, shared>>

WithCapacity(n) ==
    /\ Idle
    /\ storage' = new
    /\ cap' = with_capacity(n)
    /\ Observe(Call("with_capacity", None, n, None, storage, FALSE))
    /\ fresh' = Stale
    /\ order' = NoOrder
    /\ reserved' = NoReserved
    /\ UNCHANGED <<other, handle, drain, iter, shared>>

Reserve(additional) ==
    /\ Idle
    /\ cap' = reserve(cap, storage, additional)
    /\ reserved' = [ok |-> TRUE, additional |-> additional, capacity |-> cap', pushes |-> 0]
    /\ Observe(Call("reserve", None, additional, None, storage, FALSE))
    /\ fresh' = Stale
    /\ UNCHANGED <<storage, other, handle, drain, iter, shared, order>>

ReserveExact(additional) ==
    /\ Idle
    /\ cap' = reserve_exact(cap, storage, additional)
    /\ reserved' = [ok |-> TRUE, additional |-> additional, capacity |-> cap', pushes |-> 0]
    /\ Observe(Call("reserve_exact", None, additional, None, storage, FALSE))
    /\ fresh' = Stale
    /\ UNCHANGED <<storage, other, handle, drain, iter, shared, order>>

ShrinkToFit ==
    /\ Idle
    /\ cap' = shrink_to_fit(cap, storage)
    /\ reserved' = NoReserved
    /\ Observe(Call("shrink_to_fit", None, None, None, storage, FALSE))
    /\ fresh' = Stale
    /\ UNCHANGED <<storage, other, handle, drain, iter, shared, order>>

NextCap ==
    \/ New
    \/ \E n \in 0..MaxCapacity : WithCapacity(n)
    \/ \E additional \in 0..MaxReserve : Reserve(additional)
    \/ \E additional \in 0..MaxReserve : ReserveExact(additional)
    \/ ShrinkToFit
    \/ \E key \in Keys : Insert(key, TRUE)
    \/ \E key \in Keys : Remove(key)
    \/ Clear

SpecCap == Init /\ [][NextCap]_vars

----------------------------------------------------------------------------
\* Runs that build a map by insert and remove and then extend it with a
\* sequence of pairs, or collect a sequence of pairs into a new map.  The
\* extend or from_iter is the observed call, and the run ends with it.

\* from_iter makes its own map and reads no other, so it is taken as the
\* first call of a run.
FromIter(key_values) ==
    /\ Idle
    /\ storage = new
    /\ cap = 0
    /\ storage' = from_iter(key_values)
    /\ cap' = capacity_after(0, 0, Len(storage'))
    /\ Observe(Call("from_iter", None, key_values, None, new, FALSE))
    /\ fresh' = Stale
    /\ order' = NoOrder
    /\ reserved' = NoReserved
    /\ UNCHANGED <<other, handle, drain, iter, shared>>

NextExtend ==
    \/ \E key \in EqKeys, value \in Vals : Running /\ EqInsertSelf(key, value)
    \/ \E key \in EqKeys : Running /\ EqRemoveSelf(key)
    \/ Running /\ \E key_values \in ExtendInputs : Extend(key_values) /\ last'.op = "extend"
    \/ Running /\ \E key_values \in ExtendInputs : FromIter(key_values) /\ last'.op = "from_iter"

SpecExtend == Init /\ [][NextExtend]_vars

----------------------------------------------------------------------------
\* What the claims are stated with.

HasKey(s, key) == \E i \in 1..Len(s) : s[i][1] = key

\* The first place (counted from 1) of key in s.
FirstPlace(s, key) ==
    CHOOSE i \in 1..Len(s) : s[i][1] = key /\ \A j \in 1..(i - 1) : s[j][1] # key

FirstValue(s, key) == IF HasKey(s, key) THEN Some(s[FirstPlace(s, key)][2]) ELSE None

NoDuplicateKeys(s) == \A i, j \in 1..Len(s) : s[i][1] = s[j][1] => i = j

Range(s) == {s[i] : i \in 1..Len(s)}

Count(s, x) == Cardinality({i \in 1..Len(s) : s[i] = x})

----------------------------------------------------------------------------
\* C1: in every state reached from the empty map by insert, remove, the entry
\* calls, writes through get_mut and iter_mut, extend, clear and drain, no two
\* pairs of the storage have equal keys.
C1_NoDuplicateKeys == NoDuplicateKeys(storage)

C1_Witness ==
    /\ last.op = "VacantEntry::insert"
    /\ Len(last.pre) = 2
    /\ Len(storage) = 3

\* C2: insert of a key that is present returns the previous value, keeps the
\* length, replaces the value in place (every pair keeps its place, every
\* other pair its value), and get of the key then returns the new value.
C2_InsertPresent ==
    (last.op = "insert" /\ HasKey(last.pre, last.key)) =>
        LET i == FirstPlace(last.pre, last.key)
        IN /\ last.ret = Some(last.pre[i][2])
           /\ len(storage) = len(last.pre)
           /\ \A j \in 1..Len(last.pre) :
                 /\ storage[j][1] = last.pre[j][1]
                 /\ j # i => storage[j] = last.pre[j]
           /\ get(storage, last.key) = Some(last.value)

C2_Witness ==
    /\ last.op = "insert"
    /\ Len(last.pre) = 3
    /\ last.pre[2] = <<last.key, TRUE>>
    /\ last.value = FALSE
    /\ last.ret = Some(TRUE)

\* C3: insert of an absent key, by insert or by VacantEntry::insert, appends
\* the pair as the last one: the length grows by one and every pair there was
\* keeps its place and value; insert returns None, VacantEntry::insert a
\* reference to the value just stored.
C3_InsertAbsent ==
    (last.op \in {"insert", "VacantEntry::insert"} /\ ~HasKey(last.pre, last.key)) =>
        /\ storage = Append(last.pre, <<last.key, last.value>>)
        /\ len(storage) = len(last.pre) + 1
        /\ last.op = "insert" => last.ret = None
        /\ last.op = "VacantEntry::insert" =>
              /\ last.ret # None
              /\ last.ret[1] = Len(storage) - 1
              /\ storage[last.ret[1] + 1] = <<last.key, last.value>>

C3_Witness ==
    /\ last.op = "insert"
    /\ Len(last.pre) = 2
    /\ ~HasKey(last.pre, last.key)
    /\ last.ret = None
    /\ Len(storage) = 3

\* C4: remove of a key that is present returns the value stored for it, the
\* length shrinks by one, get and contains_key of the key then report it
\* absent, and get of every other key returns what it returned before.
C4_RemovePresent ==
    (last.op = "remove" /\ HasKey(last.pre, last.key)) =>
        /\ last.ret = Some(last.pre[FirstPlace(last.pre, last.key)][2])
        /\ len(storage) = len(last.pre) - 1
        /\ get(storage, last.key) = None
        /\ ~contains_key(storage, last.key)
        /\ \A k \in Keys \ {last.key} : get(storage, k) = get(last.pre, k)

C4_Witness ==
    /\ last.op = "remove"
    /\ Len(last.pre) = 3
    /\ last.pre[1][1] = last.key
    /\ last.ret = Some(last.pre[1][2])
    /\ Len(storage) = 2

\* C5: remove of an absent key returns None and leaves the map as it was (the
\* same pairs in the same order); so does a second remove of a key just
\* removed, and remove on the empty map.
C5_RemoveAbsent ==
    /\ (last.op = "remove" /\ ~HasKey(last.pre, last.key)) =>
           /\ last.ret = None
           /\ storage = last.pre
    /\ (last.op = "remove" /\ last.ret # None) =>
           /\ remove(storage, last.key).ret = None
           /\ remove(storage, last.key).storage = storage
    /\ \A k \in Keys : remove(new, k).ret = None /\ remove(new, k).storage = new

C5_Witness ==
    /\ last.op = "remove"
    /\ Len(last.pre) = 2
    /\ ~HasKey(last.pre, last.key)
    /\ last.ret = None
    /\ storage = last.pre

\* C6: remove of a key found at index i of n pairs moves the pair that was
\* at index n - 1 to index i (nothing moves when i = n - 1) and leaves n - 1
\* pairs; every other remaining pair keeps its index.
C6_RemoveSwapsLast ==
    (last.op = "remove" /\ HasKey(last.pre, last.key)) =>
        LET n == Len(last.pre)
            i == FirstPlace(last.pre, last.key) - 1
        IN /\ Len(storage) = n - 1
           /\ i < n - 1 => storage[i + 1] = last.pre[n]
           /\ \A j \in 0..(n - 2) : j # i => storage[j + 1] = last.pre[j + 1]

C6_Witness ==
    /\ last.op = "remove"
    /\ Len(last.pre) = 3
    /\ last.pre[1][1] = last.key
    /\ storage = <<last.pre[3], last.pre[2]>>

\* C7: get and get_mut return the value of the first pair whose key is the
\* key, and None when there is none; a write through get_mut's reference
\* changes the value of that pair only; contains_key is true exactly when the
\* key has a pair; get and contains_key leave the map as it was.
C7_Lookup ==
    /\ last.op = "get" =>
           /\ last.ret = FirstValue(last.pre, last.key)
           /\ storage = last.pre
    /\ last.op = "get_mut" =>
           /\ last.ret = FirstValue(last.pre, last.key)
           /\ storage = IF HasKey(last.pre, last.key)
                        THEN [last.pre EXCEPT ![FirstPlace(last.pre, last.key)] =
                                                 <<last.key, last.value>>]
                        ELSE last.pre
    /\ last.op = "contains_key" =>
           /\ last.ret = HasKey(last.pre, last.key)
           /\ last.ret = is_some(get(last.pre, last.key))
           /\ storage = last.pre

C7_Witness ==
    /\ last.op = "get"
    /\ Len(last.pre) = 3
    /\ last.pre[1] = <<last.key, TRUE>>
    /\ last.pre[2][2] = FALSE
    /\ last.ret = Some(TRUE)

\* C8: after any number of inserts of pairwise distinct keys into a new map,
\* every insert returned None, len is the number of inserts, is_empty is false
\* once there was an insert, and get returns the inserted value of every key
\* inserted.
C8_DistinctInserts ==
    fresh.ok =>
        /\ fresh.none
        /\ len(storage) = Len(fresh.inserted)
        /\ Len(fresh.inserted) > 0 => ~is_empty(storage)
        /\ \A i \in 1..Len(fresh.inserted) :
              get(storage, fresh.inserted[i][1]) = Some(fresh.inserted[i][2])

C8_Witness ==
    /\ fresh.ok
    /\ Len(fresh.inserted) = 3
    /\ len(storage) = 3

\* C9: two maps are equal exactly when they have the same length and every
\* pair of one is a pair of the other, whatever the order of the pairs; from
\* two equal maps, giving a key of one another value or removing a key makes
\* them unequal, and giving the key its value back makes them equal again.
C9_Equality ==
    /\ eq(storage, other) <=>
           /\ Len(storage) = Len(other)
           /\ \A i \in 1..Len(storage) : \E j \in 1..Len(other) : other[j] = storage[i]
    /\ eq(storage, other) <=> Range(storage) = Range(other)
    /\ eq(storage, other) =>
           \A i \in 1..Len(storage) :
               LET k == storage[i][1]
                   v == storage[i][2]
                   changed == insert(storage, k, ~v).storage
               IN /\ ~eq(changed, other)
                  /\ eq(insert(changed, k, v).storage, other)
                  /\ ~eq(remove(storage, k).storage, other)

C9_Witness ==
    /\ eq(storage, other)
    /\ Len(storage) = 2
    /\ storage # other

\* C10: a Drain driven until nothing is left has yielded every pair of the
\* map exactly once, in storage order when only next() was called, and the
\* map is empty once the Drain is gone.
C10_DrainExhausted ==
    (drain.state # "none" /\ drain.iter = <<>>) =>
        /\ \A p \in Range(drain.orig) \cup Range(drain.yielded) :
              Count(drain.yielded, p) = Count(drain.orig, p)
        /\ ~drain.back => drain.yielded = drain.orig
        /\ drain.state = "dropped" => len(storage) = 0

C10_Witness ==
    /\ drain.state = "dropped"
    /\ drain.iter = <<>>
    /\ ~drain.back
    /\ Len(drain.orig) = 3
    /\ drain.yielded = drain.orig
    /\ len(storage) = 0

\* C11: once a Drain that yielded fewer pairs than the map held (from the
\* front, the back or both) has been dropped, the map is empty: len is 0,
\* every key is absent, and no pair that was not yielded is in the map.
C11_DrainDroppedEarly ==
    (drain.state = "dropped" /\ Len(drain.yielded) < Len(drain.orig)) =>
        /\ len(storage) = 0
        /\ is_empty(storage)
        /\ \A k \in Keys : get(storage, k) = None /\ ~contains_key(storage, k)
        /\ \A i \in 1..Len(drain.iter) : \A j \in 1..Len(storage) : storage[j] # drain.iter[i]

C11_Witness ==
    /\ drain.state = "dropped"
    /\ Len(drain.orig) = 3
    /\ Len(drain.front) = 1
    /\ Len(drain.backs) = 1
    /\ Len(drain.iter) = 1
    /\ len(storage) = 0

\* C12: entry(key).or_insert(default) on a map without the key appends
\* (key, default), the length grows by one and the reference returned points
\* to that value; on a map with the key the storage stays as it was (value,
\* order and length) and the reference points to the value there was.
C12_OrInsert ==
    last.op = "or_insert" =>
        /\ ~last.panic
        /\ last.ret # None
        /\ IF HasKey(last.pre, last.key)
           THEN /\ storage = last.pre
                /\ len(storage) = len(last.pre)
                /\ last.ret[1] = FirstPlace(last.pre, last.key) - 1
                /\ storage[last.ret[1] + 1][2] = last.pre[FirstPlace(last.pre, last.key)][2]
                /\ get(storage, last.key) = get(last.pre, last.key)
           ELSE /\ storage = Append(last.pre, <<last.key, last.value>>)
                /\ len(storage) = len(last.pre) + 1
                /\ storage[last.ret[1] + 1] = <<last.key, last.value>>

C12_Witness ==
    /\ last.op = "or_insert"
    /\ Len(last.pre) = 2
    /\ last.pre[2] = <<last.key, TRUE>>
    /\ last.value = FALSE
    /\ get(storage, last.key) = Some(TRUE)

\* C13: map[key] returns what get(key) returns when the key is present; when
\* it is absent the call panics with "key not found" and returns no value;
\* the map is left as it was.
C13_Index ==
    last.op = "index" =>
        /\ storage = last.pre
        /\ IF HasKey(last.pre, last.key)
           THEN /\ ~last.panic
                /\ last.ret = get(last.pre, last.key)
                /\ last.ret = FirstValue(last.pre, last.key)
           ELSE /\ last.panic
                /\ last.msg = "key not found"
                /\ last.ret = None

C13_Witness ==
    /\ last.op = "index"
    /\ Len(last.pre) = 2
    /\ ~HasKey(last.pre, last.key)
    /\ last.panic
    /\ last.msg = "key not found"

\* C14: no call other than map[key] with an absent key panics: the index an
\* OccupiedEntry holds is less than the length of the storage, so are the
\* indices remove and insert use, and VacantEntry::insert finds the pair it
\* pushed as the last one.
C14_NoPanic ==
    /\ last.panic => (last.op = "index" /\ ~HasKey(last.pre, last.key))
    /\ handle.e.tag = "Occupied" =>
           /\ handle.e.index[1] < Len(storage)
           /\ ~OccupiedEntry_get(storage, handle.e).panic
           /\ ~OccupiedEntry_get_mut(storage, handle.e).panic
           /\ ~OccupiedEntry_remove(storage, handle.e).panic
    /\ handle.e.tag = "Vacant" =>
           \A value \in Vals : ~VacantEntry_insert(storage, handle.e, value).panic
    /\ \A key \in Keys :
           /\ ~remove(storage, key).panic
           /\ \A value \in Vals : ~insert(storage, key, value).panic

C14_Witness ==
    /\ last.op = "OccupiedEntry::remove"
    /\ Len(last.pre) = 3
    /\ last.pre[3][1] = last.key
    /\ ~last.panic
    /\ Len(storage) = 2

\* C15: the Vec a map converts into holds the pairs in storage order, the
\* order in which iter() yields them, and the map rebuilt from that Vec by
\* from_iter is equal to the original.
C15_IntoRoundTrip ==
    last.op = "into" =>
        /\ last.ret[1] = collect(iter_call(last.pre))
        /\ \A i \in 1..Len(last.pre) : last.ret[1][i] = last.pre[i]
        /\ Len(last.ret[1]) = Len(last.pre)
        /\ other = from_iter(last.ret[1])
        /\ eq(other, last.pre)
        /\ eq(last.pre, other)

C15_Witness ==
    /\ last.op = "into"
    /\ Len(last.pre) = 3
    /\ last.pre[1][1] > last.pre[2][1]
    /\ Len(other) = 3
    /\ eq(other, last.pre)

\* C16: in every state reached from a new map by calls that never remove a
\* pair (inserts of new and of present keys, extend, the entry calls other
\* than remove, writes through references), the keys iter() yields are the
\* keys in the order of their first insert.
C16_InsertionOrder ==
    order.ok =>
        LET seen == collect(iter_call(storage))
        IN /\ Len(seen) = Len(order.keys)
           /\ \A i \in 1..Len(seen) : seen[i][1] = order.keys[i]
           /\ \A i \in 1..Len(storage) : storage[i][1] = order.keys[i]

C16_Witness ==
    /\ order.ok
    /\ order.keys = <<3, 1, 2>>
    /\ last.op = "insert"
    /\ last.key = 3
    /\ last.ret # None
    /\ last.ret[1] # last.value
    /\ Len(storage) = 3

\* C17: entry(key).or_insert_with(producer) calls the producer exactly once
\* when the key is absent and appends the pair of the key and its result, and
\* does not call it when the key is present, leaving the map as it was; in
\* both cases the reference returned points to the value stored for the key.
C17_OrInsertWith ==
    last.op = "or_insert_with" =>
        /\ IF HasKey(last.pre, last.key)
           THEN /\ last.calls = 0
                /\ storage = last.pre
           ELSE /\ last.calls = 1
                /\ storage = Append(last.pre, <<last.key, last.value>>)
        /\ last.ret # None
        /\ last.ret[1] = FirstPlace(storage, last.key) - 1
        /\ Some(storage[last.ret[1] + 1][2]) = get(storage, last.key)

C17_Witness ==
    /\ last.op = "or_insert_with"
    /\ Len(last.pre) = 3
    /\ last.pre[2][1] = last.key
    /\ last.pre[2][2] # last.value
    /\ last.calls = 0
    /\ storage = last.pre

\* C18: on an OccupiedEntry, get returns the value stored for the key; insert
\* stores the new value, returns the old one and leaves the handle usable, a
\* get on it then returning the new value; a write through get_mut is what
\* get(key) on the map then returns; none of them changes the length or any
\* other pair.
C18_OccupiedEntry ==
    /\ last.op = "OccupiedEntry::get" =>
           /\ last.ret = FirstValue(last.pre, last.key)
           /\ storage = last.pre
    /\ last.op = "OccupiedEntry::insert" =>
           /\ last.ret = FirstValue(last.pre, last.key)
           /\ storage = [last.pre EXCEPT ![FirstPlace(last.pre, last.key)] =
                                            <<last.key, last.value>>]
           /\ len(storage) = len(last.pre)
           /\ handle.e.tag = "Occupied"
           /\ OccupiedEntry_get(storage, handle.e).ret = Some(last.value)
           /\ get(storage, last.key) = Some(last.value)
    /\ last.op = "OccupiedEntry::get_mut" =>
           /\ last.ret = Some(FirstPlace(last.pre, last.key) - 1)
           /\ storage = [last.pre EXCEPT ![FirstPlace(last.pre, last.key)] =
                                            <<last.key, last.value>>]
           /\ len(storage) = len(last.pre)
           /\ handle.e.tag = "Occupied"
           /\ get(storage, last.key) = Some(last.value)

C18_Witness ==
    /\ last.op = "OccupiedEntry::insert"
    /\ Len(last.pre) = 3
    /\ last.pre[2] = <<last.key, TRUE>>
    /\ last.value = FALSE
    /\ last.ret = Some(TRUE)
    /\ OccupiedEntry_get(storage, handle.e).ret = Some(FALSE)

\* The part of a pair an iterator of the given kind yields.
Item(kind, e) ==
    CASE kind = "keys" -> e[1]
      [] kind = "values" -> e[2]
      [] OTHER -> e

\* C19: for iter, iter_mut, keys, values, into_iter and drain over n pairs
\* and any interleaving of next() and next_back(): next() yields the pairs in
\* storage order, next_back() in reverse storage order, no pair is yielded
\* twice and what is left is what was not yielded, len() is n minus the
\* number yielded, both calls return None once n were yielded, and keys and
\* values yield the keys and the values of what iter yields.
C19_Iterators ==
    /\ iter.kind # "none" =>
           LET n == Len(iter.orig)
               f == Len(iter.front)
               b == Len(iter.back)
           IN /\ f + b <= n
              /\ \A i \in 1..f : iter.front[i] = Item(iter.kind, iter.orig[i])
              /\ \A j \in 1..b : iter.back[j] = Item(iter.kind, iter.orig[n + 1 - j])
              /\ iter.rest = SubSeq(iter.orig, f + 1, n - b)
              /\ Iterator_len(iter.kind, iter.rest) = n - (f + b)
              /\ f + b = n =>
                     /\ Iterator_next(iter.kind, iter.rest).ret = None
                     /\ Iterator_next_back(iter.kind, iter.rest).ret = None
              /\ f + b < n =>
                     /\ Keys_next(iter.rest).ret = Some(Iter_next(iter.rest).ret[1][1])
                     /\ Values_next(iter.rest).ret = Some(Iter_next(iter.rest).ret[1][2])
                     /\ Keys_next_back(iter.rest).ret = Some(Iter_next_back(iter.rest).ret[1][1])
                     /\ Values_next_back(iter.rest).ret = Some(Iter_next_back(iter.rest).ret[1][2])
    /\ drain.state = "live" =>
           LET n == Len(drain.orig)
               f == Len(drain.front)
               b == Len(drain.backs)
           IN /\ f + b <= n
              /\ \A i \in 1..f : drain.front[i] = drain.orig[i]
              /\ \A j \in 1..b : drain.backs[j] = drain.orig[n + 1 - j]
              /\ drain.iter = SubSeq(drain.orig, f + 1, n - b)
              /\ Drain_len(drain.iter) = n - (f + b)
              /\ f + b = n =>
                     /\ Drain_next(drain.iter).ret = None
                     /\ Drain_next_back(drain.iter).ret = None

C19_Witness ==
    /\ iter.kind = "keys"
    /\ Len(iter.orig) = 3
    /\ Len(iter.front) = 1
    /\ Len(iter.back) = 2
    /\ iter.back[1] = iter.orig[3][1]
    /\ iter.back[2] = iter.orig[2][1]
    /\ Keys_next(iter.rest).ret = None

\* A run of consecutive pairs of s.
IsSlice(t, s) == \E a \in 0..Len(s) : a + Len(t) <= Len(s) /\ t = SubSeq(s, a + 1, a + Len(t))

\* What an Iter, a Keys or a Values holds: it was made on a run of
\* consecutive pairs of the storage, which is as it was then, it has yielded
\* from the front the first of them in storage order and from the back the
\* last in reverse storage order, what is left are the pairs in between, and
\* len() and size_hint() are their number.
SharedIterator(it) ==
    LET n == Len(it.orig)
        f == Len(it.front)
        b == Len(it.back)
    IN /\ IsSlice(it.orig, storage)
       /\ f + b <= n
       /\ \A i \in 1..f : it.front[i] = Item(it.kind, it.orig[i])
       /\ \A j \in 1..b : it.back[j] = Item(it.kind, it.orig[n + 1 - j])
       /\ it.rest = SubSeq(it.orig, f + 1, n - b)
       /\ Iterator_len(it.kind, it.rest) = n - (f + b)
       /\ Iterator_size_hint(it.kind, it.rest) = <<n - (f + b), Some(n - (f + b))>>

\* Under SpecShared, two shared iterators alive at a time, made by iter(),
\* keys(), values() or clone(): each is as SharedIterator tells, so the steps
\* of the one move nothing in the other, and a clone starts where the
\* iterator it was cloned from stood.
SharedIterators ==
    /\ iter.kind # "none" => SharedIterator(iter)
    /\ shared.kind # "none" => SharedIterator(shared)

SharedIterators_Witness ==
    /\ iter.kind = "keys"
    /\ shared.kind = "values"
    /\ Len(storage) = 2
    /\ Len(iter.front) = 2
    /\ Len(shared.back) = 1
    /\ Len(shared.rest) = 1

\* A clone of a Keys made after one next(): it has one key left, the second
\* of the storage, and has yielded it while the Keys it was cloned from has
\* not.
IterClone_Witness ==
    /\ Len(storage) = 2
    /\ iter.kind = "keys"
    /\ iter.front = <<storage[1][1]>>
    /\ iter.rest = <<storage[2]>>
    /\ shared.kind = "keys"
    /\ shared.orig = <<storage[2]>>
    /\ shared.front = <<storage[2][1]>>
    /\ shared.rest = <<>>

\* C20: after reserve(additional) or reserve_exact(additional) the capacity
\* is at least len + additional and the pairs are as they were; the next
\* additional inserts of absent keys leave the capacity as the call left it;
\* with_capacity(n) gives an empty map of capacity at least n and new() an
\* empty map of capacity 0.
C20_Capacity ==
    /\ last.op \in {"reserve", "reserve_exact"} =>
           /\ capacity(cap) >= len(last.pre) + last.value
           /\ storage = last.pre
    /\ (reserved.ok /\ reserved.pushes <= reserved.additional) =>
           /\ capacity(cap) = reserved.capacity
           /\ capacity(cap) >= len(storage) + (reserved.additional - reserved.pushes)
    /\ last.op = "with_capacity" =>
           /\ is_empty(storage)
           /\ capacity(cap) >= last.value
    /\ last.op = "LinearMap::new" =>
           /\ is_empty(storage)
           /\ capacity(cap) = 0

C20_Witness ==
    /\ reserved.ok
    /\ reserved.additional = 2
    /\ reserved.pushes = 2
    /\ len(storage) = 3
    /\ capacity(cap) = 3
    /\ reserved.capacity = 3

\* C21: clear leaves no pair (len is 0, is_empty holds, every key is absent)
\* and the capacity as it was; remove never reduces the capacity.
C21_ClearKeepsCapacity ==
    /\ last.op = "clear" =>
           /\ len(storage) = 0
           /\ is_empty(storage)
           /\ \A k \in Keys : get(storage, k) = None /\ ~contains_key(storage, k)
           /\ capacity(cap) = last.cap
    /\ last.op = "remove" =>
           /\ capacity(cap) >= last.cap
           /\ capacity(cap) >= len(last.pre)

C21_Witness ==
    /\ last.op = "clear"
    /\ Len(last.pre) = 3
    /\ last.cap = 3
    /\ len(storage) = 0
    /\ capacity(cap) = 3

\* C22: entry(key) leaves the map as it was and returns Occupied exactly when
\* contains_key(key) holds, Vacant otherwise; while an Occupied handle is
\* alive its index is less than len and the pair at that index has the key
\* entry was called with, and while a Vacant handle is alive the key is
\* absent.
C22_EntryHandle ==
    /\ last.op = "entry" =>
           /\ storage = last.pre
           /\ handle.asked = Some(last.key)
           /\ handle.e.tag = "Occupied" <=> contains_key(last.pre, last.key)
           /\ handle.e.tag = "Vacant" <=> ~contains_key(last.pre, last.key)
    /\ handle.e.tag = "Occupied" =>
           /\ handle.e.index[1] < len(storage)
           /\ storage[handle.e.index[1] + 1][1] = handle.asked[1]
           /\ handle.e.index = position(storage, handle.asked[1])
    /\ handle.e.tag = "Vacant" =>
           /\ ~contains_key(storage, handle.asked[1])
           /\ handle.e.key = handle.asked

C22_Witness ==
    /\ last.op = "entry"
    /\ handle.e.tag = "Occupied"
    /\ handle.e.index = Some(1)
    /\ Len(storage) = 3
    /\ storage[2][1] = last.key

\* C23: for a present key, entry(key) and then OccupiedEntry::remove returns
\* the value remove(key) returns and leaves the same pairs at the same
\* indices; for every key, insert(key, value) leaves the storage that
\* entry(key) and then OccupiedEntry::insert or VacantEntry::insert leaves,
\* and returns Some of what OccupiedEntry::insert returns for a present key
\* and None for an absent one.
C23_EntryFrontEnds ==
    /\ last.op \in {"OccupiedEntry::remove", "remove"} /\ HasKey(last.pre, last.key) =>
           LET direct == remove(last.pre, last.key)
               viaEntry == OccupiedEntry_remove(last.pre, entry(last.pre, last.key))
           IN /\ entry(last.pre, last.key).tag = "Occupied"
              /\ viaEntry.ret = direct.ret
              /\ viaEntry.storage = direct.storage
              /\ last.ret = direct.ret
              /\ storage = direct.storage
    /\ last.op \in {"OccupiedEntry::insert", "VacantEntry::insert", "insert"} =>
           LET direct == insert(last.pre, last.key, last.value)
               e == entry(last.pre, last.key)
               viaEntry == IF e.tag = "Occupied"
                           THEN OccupiedEntry_insert(last.pre, e, last.value)
                           ELSE VacantEntry_insert(last.pre, e, last.value)
           IN /\ viaEntry.storage = direct.storage
              /\ storage = direct.storage
              /\ e.tag = "Occupied" => direct.ret = viaEntry.ret
              /\ e.tag = "Vacant" =>
                     /\ direct.ret = None
                     /\ viaEntry.storage[viaEntry.ret[1] + 1] = <<last.key, last.value>>
              /\ last.op = "OccupiedEntry::insert" => e.tag = "Occupied" /\ last.ret = direct.ret
              /\ last.op = "VacantEntry::insert" => e.tag = "Vacant"
              /\ last.op = "insert" => last.ret = direct.ret

C23_Witness ==
    /\ last.op = "OccupiedEntry::remove"
    /\ Len(last.pre) = 3
    /\ last.pre[1][1] = last.key
    /\ last.ret = Some(last.pre[1][2])
    /\ storage = <<last.pre[3], last.pre[2]>>
    /\ storage = remove(last.pre, last.key).storage

\* C24: == is symmetric on maps built by insert and remove: a == b holds
\* exactly when b == a, though eq walks the pairs of its left operand only
\* and looks each key up in the right one.
C24_EqSymmetric ==
    /\ eq(storage, other) <=> eq(other, storage)
    /\ eq(storage, storage)
    /\ eq(other, other)

C24_Witness ==
    /\ Len(storage) = 2
    /\ Len(other) = 2
    /\ storage[1] = other[2]
    /\ storage[2] = other[1]
    /\ eq(storage, other)
    /\ eq(other, storage)

\* insert called on each pair of key_values in order, from the pair at
\* place i on.
RECURSIVE InsertEach(_, _, _)
InsertEach(s, key_values, i) ==
    IF i > Len(key_values) THEN s
    ELSE InsertEach(insert(s, key_values[i][1], key_values[i][2]).storage, key_values, i + 1)

KeysOf(s) == {s[i][1] : i \in 1..Len(s)}

\* The places of the first and of the last pair of s with the key.
FirstIn(s, key) == CHOOSE i \in 1..Len(s) : s[i][1] = key /\ \A j \in 1..(i - 1) : s[j][1] # key

LastIn(s, key) == CHOOSE i \in 1..Len(s) : s[i][1] = key /\ \A j \in (i + 1)..Len(s) : s[j][1] # key

\* C25: extend(pairs) on a map, and from_iter(pairs) on a new one, reach the
\* storage that insert called on each pair in order reaches: every key is
\* there once; a key the map had keeps its place, the others follow in the
\* order of their first occurrence in pairs; a key of pairs has the value of
\* its last occurrence, any other key the value it had; len is the number of
\* distinct keys.
C25_ExtendIsInsertEach ==
    last.op \in {"extend", "from_iter"} =>
        LET pre == last.pre
            kvs == last.value
        IN /\ storage = InsertEach(pre, kvs, 1)
           /\ last.op = "from_iter" => pre = new /\ storage = from_iter(kvs)
           /\ NoDuplicateKeys(storage)
           /\ KeysOf(storage) = KeysOf(pre) \cup KeysOf(kvs)
           /\ len(storage) = Cardinality(KeysOf(pre) \cup KeysOf(kvs))
           /\ \A i \in 1..Len(pre) : storage[i][1] = pre[i][1]
           /\ \A i, j \in (Len(pre) + 1)..Len(storage) :
                 i < j <=> FirstIn(kvs, storage[i][1]) < FirstIn(kvs, storage[j][1])
           /\ \A i \in 1..Len(storage) :
                 storage[i][2] = IF storage[i][1] \in KeysOf(kvs)
                                 THEN kvs[LastIn(kvs, storage[i][1])][2]
                                 ELSE pre[i][2]

C25_Witness ==
    /\ last.op = "extend"
    /\ Len(last.pre) = 2
    /\ Len(last.value) = 2
    /\ last.value[1][1] = last.pre[1][1]
    /\ last.value[2][1] = last.pre[1][1]
    /\ last.value[1][2] = last.pre[1][2]
    /\ last.value[2][2] # last.pre[1][2]
    /\ storage = <<last.value[2], last.pre[2]>>

\* C26: after insert(key, value) of an absent key, remove(key) returns
\* Some(value) and leaves the storage exactly as it was before the insert,
\* the order of the pairs included; after remove(key) of a present key that
\* was not stored last, insert(key, the same value) gives a map equal by ==
\* to the original whose storage order differs from the original's.
C26_InsertRemove ==
    /\ (last.op = "insert" /\ ~HasKey(last.pre, last.key)) =>
           LET undone == remove(storage, last.key)
           IN /\ undone.ret = Some(last.value)
              /\ undone.storage = last.pre
    /\ (/\ last.op = "remove"
        /\ HasKey(last.pre, last.key)
        /\ FirstPlace(last.pre, last.key) < Len(last.pre)) =>
           LET again == insert(storage, last.key, last.ret[1])
           IN /\ again.ret = None
              /\ eq(again.storage, last.pre)
              /\ eq(last.pre, again.storage)
              /\ again.storage # last.pre
              /\ again.storage[Len(again.storage)] = <<last.key, last.ret[1]>>

C26_Witness ==
    /\ last.op = "remove"
    /\ Len(last.pre) = 3
    /\ last.pre[1][1] = last.key
    /\ last.ret # None
    /\ insert(storage, last.key, last.ret[1]).storage = <<last.pre[3], last.pre[2], last.pre[1]>>
    /\ eq(insert(storage, last.key, last.ret[1]).storage, last.pre)

====
